---- MODULE Spec2Model ----
(***************************************************************************)
(* A model of src/src/mutualinformation.py: registration of the red        *)
(* channel of an image against its cropped green channel by an exhaustive  *)
(* scan over 41 horizontal shifts, scored by a histogram-based mutual      *)
(* information.                                                            *)
(*                                                                         *)
(* Arrays are sequences (a 2-D image is a sequence of rows, a 3-channel    *)
(* image a sequence of rows of <<r, g, b>> pixels).  Python indexes from   *)
(* 0 and TLA+ from 1: PyGet and PyIndexOk carry the translation, negative  *)
(* (wrap-around) indices and IndexError included.                          *)
(*                                                                         *)
(* Intensities are float64 in the program.  Here an intensity is an        *)
(* integer number of 1/Scale units, so that int(pix) (truncation) is a     *)
(* real conversion.  Probabilities are exact rationals extended with inf   *)
(* and nan, which is what numpy's float64 division produces on a zero      *)
(* divisor; rounding error is not modelled.                                *)
(***************************************************************************)
EXTENDS Integers, Sequences, FiniteSets, TLC

VARIABLES pc, image, reference, template, i, overlappingregion, results, call

vars == <<pc, image, reference, template, i, overlappingregion, results, call>>

(***************************** bounds **************************************)
\* intensities are multiples of 1/Scale
Scale == 2
\* widest reference handed to a direct call of overlap
MaxW == 2
\* tallest image handed to a direct call
MaxH == 2
\* direct calls of overlap take shift in -ShiftSlack .. 40+ShiftSlack
ShiftSlack == 3
\* largest bin_size handed to marginal_pmf
MaxBin == 258
\* most pixels of an image handed to a direct call of marginal_pmf
MaxPix == 2
\* registration is run on images up to MaxExtra columns wider than 40
MaxExtra == 2

(************************ program constants ********************************)
\* np.zeros(256): the raw histogram has one entry per grey value
HistLen == 256
\* range(0, 255, bin_size): the stop of the binning loop
BinStop == 255
\* xmin = (40-shift) + j
ShiftBase == 40
\* for i in range(41)
NumShifts == 41
\* for _ in range(20)
CropCols == 20
\* mutual_information(..., bin_size=3)
RegBinSize == 3

(************************** Python indexing ********************************)
\* (a variant: no wrap-around, an index below 0 is an error)
PyIndexOk_nowrap(s, k) == k < Len(s) /\ k >= 0

\* seq[k] is defined in Python for -len <= k < len
PyIndexOk(s, k) == k < Len(s) /\ k >= -Len(s)

\* seq[k] in Python, for an index that PyIndexOk accepts
PyGet(s, k) == IF k >= 0 THEN s[k + 1] ELSE s[Len(s) + k + 1]

\* np.shape(a) of a 2-D array: (rows, columns)
Height(a) == Len(a)
Width(a) == IF Len(a) = 0 THEN 0 ELSE Len(a[1])

\* np.copy(a): a new array with the same contents
NpCopy(a) == a

(****************************** overlap ************************************)
\* (a variant: the window slides the other way)
xmin_plus(shift, j) == shift + j

\* the column read for output column j (0-based) under a shift
xmin(shift, j) == (ShiftBase - shift) + j

\* the reads temp[r][xmin] of the two loops, as <<row, column>> pairs (0-based)
OverlapReads(ref, shift) ==
    { <<r, xmin(shift, j)>> : r \in 0..(Height(ref) - 1), j \in 0..(Width(ref) - 1) }

\* temp[r][c] raises IndexError
ReadFails(temp, rc) ==
    \/ ~PyIndexOk(temp, rc[1])
    \/ ~PyIndexOk(PyGet(temp, rc[1]), rc[2])

\* (a variant: result is ref itself, not a copy)
OverlapRefAfter_alias(ref, result) == result

\* The array left in ref once overlap has run: overlap writes into result,
\* a np.copy of ref, so ref keeps its contents.
OverlapRefAfter(ref, result) == ref

\* overlap(ref, temp, shift): status, the returned array and ref as left
overlap(ref, temp, shift) ==
    IF \E rc \in OverlapReads(ref, shift) : ReadFails(temp, rc)
    THEN [status |-> "IndexError", ret |-> <<>>, ref |-> ref]
    ELSE LET result == [r \in 1..Height(ref) |->
                          [c \in 1..Width(ref) |->
                             PyGet(PyGet(temp, r - 1), xmin(shift, c - 1))]]
         IN [status |-> "ok", ret |-> result,
             ref |-> OverlapRefAfter(ref, result)]

(*********************** float64 arithmetic *********************************)
\* Every quantity of the program is >= 0 until the logarithm is taken, so a
\* float is a non-negative rational n/d in lowest terms, inf or nan.
RECURSIVE GCD(_, _)
GCD(a, b) == IF b = 0 THEN a ELSE GCD(b, a % b)

Fin(n, d) == LET g == GCD(n, d) IN [k |-> "fin", n |-> n \div g, d |-> d \div g]
INF == [k |-> "inf", n |-> 0, d |-> 0]
NAN == [k |-> "nan", n |-> 0, d |-> 0]
IsZero(x) == x.k = "fin" /\ x.n = 0

\* x / y on numpy float64 scalars and arrays: a zero divisor gives inf or
\* nan (with a RuntimeWarning), it does not raise
FDiv(x, y) ==
    IF x.k = "nan" \/ y.k = "nan" THEN NAN
    ELSE IF y.k = "inf" THEN (IF x.k = "inf" THEN NAN ELSE Fin(0, 1))
    ELSE IF x.k = "inf" THEN INF
    ELSE IF y.n = 0 THEN (IF x.n = 0 THEN NAN ELSE INF)
    ELSE Fin(x.n * y.d, x.d * y.n)

FAdd(x, y) ==
    IF x.k = "nan" \/ y.k = "nan" THEN NAN
    ELSE IF x.k = "inf" \/ y.k = "inf" THEN INF
    ELSE Fin(x.n * y.d + y.n * x.d, x.d * y.d)

FMul(x, y) ==
    IF x.k = "nan" \/ y.k = "nan" THEN NAN
    ELSE IF x.k = "inf" \/ y.k = "inf"
         THEN (IF IsZero(x) \/ IsZero(y) THEN NAN ELSE INF)
    ELSE Fin(x.n * y.n, x.d * y.d)

(**************************** marginal_pmf *********************************)
\* int(x): truncation toward zero of an intensity given in 1/Scale units
Trunc(x) == IF x >= 0 THEN x \div Scale ELSE 0 - ((0 - x) \div Scale)

\* the <<row, column>> positions of a 2-D image (1-based)
Positions(img) == { <<r, c>> : r \in 1..Height(img), c \in 1..Width(img) }

\* pix = int(row[i]) of the pixel at a position
Pix(img, p) == Trunc(img[p[1]][p[2]])

\* hist_vals[pix] += 1 raises IndexError for a pix outside -256..255
HistFails(img) ==
    \E p \in Positions(img) : Pix(img, p) >= HistLen \/ Pix(img, p) < 0 - HistLen

\* hist_vals after the counting loop (a negative pix wraps around)
HistIndex(pix) == IF pix >= 0 THEN pix ELSE pix + HistLen

hist_vals(img) ==
    LET seen == { HistIndex(Pix(img, p)) : p \in Positions(img) }
    IN [v \in 0..(HistLen - 1) |->
          IF v \in seen
          THEN Cardinality({ p \in Positions(img) : HistIndex(Pix(img, p)) = v })
          ELSE 0]

\* (a variant: the loop written range(0, 256, bin_size))
BinStarts_stop256(bin_size) ==
    [k \in 1..(BinStop \div bin_size + 1) |-> (k - 1) * bin_size]

\* the values of i in `for i in range(0, 255, bin_size)`, in order
BinStarts(bin_size) ==
    [k \in 1..((BinStop - 1) \div bin_size + 1) |-> (k - 1) * bin_size]

\* the indices i+j at which the binning loops read hist_vals
BinReads(bin_size) ==
    LET starts == BinStarts(bin_size)
    IN { starts[k] + j : k \in 1..Len(starts), j \in 0..(bin_size - 1) }

\* hist[lo] + ... + hist[hi]
RECURSIVE HistSum(_, _, _)
HistSum(hist, lo, hi) ==
    IF lo > hi THEN 0
    ELSE IF lo = hi THEN hist[lo]
    ELSE LET mid == (lo + hi) \div 2
         IN HistSum(hist, lo, mid) + HistSum(hist, mid + 1, hi)

\* var after `for j in range(bin_size): var += hist_vals[i+j]`
BinVar(hist, start, bin_size) == HistSum(hist, start, start + bin_size - 1)

\* marginal_pmf(image, bin_size, id0); the assignment i = i * bin_size at
\* the end of the loop body is overwritten by the for statement
marginal_pmf(img, bin_size, id0) ==
    IF HistFails(img) \/ (\E x \in BinReads(bin_size) : x >= HistLen)
    THEN [status |-> "IndexError", ret |-> <<>>]
    ELSE LET hist == hist_vals(img)
             count == Cardinality(Positions(img))
             starts == BinStarts(bin_size)
         IN [status |-> "ok",
             ret |-> [k \in 1..Len(starts) |->
                        FDiv(Fin(BinVar(hist, starts[k], bin_size), 1),
                             Fin(count, 1))]]

(************************ channel extraction *******************************)
\* imagecopy[:,:,ch] = 0 for every channel ch (0-based) of chans
ZeroChannels(img, chans) ==
    [r \in 1..Len(img) |->
       [c \in 1..Len(img[r]) |->
          [ch \in 1..3 |-> IF (ch - 1) \in chans THEN 0 ELSE img[r][c][ch]]]]

\* img[:,:,ch] for a channel ch (0-based)
Channel(img, ch) ==
    [r \in 1..Len(img) |-> [c \in 1..Len(img[r]) |-> img[r][c][ch + 1]]]

\* extract_red(image): the returned channel and the argument as left
extract_red(img) ==
    LET imagecopy == ZeroChannels(NpCopy(img), {1, 2})
    IN [ret |-> Channel(imagecopy, 0), image |-> img]

\* (a variant: the channels are zeroed in the argument itself)
extract_green_nocopy(img) ==
    LET imagecopy == ZeroChannels(img, {0, 2})
    IN [ret |-> Channel(imagecopy, 1), image |-> imagecopy]

\* extract_green(image): the returned channel and the argument as left
extract_green(img) ==
    LET imagecopy == ZeroChannels(NpCopy(img), {0, 2})
    IN [ret |-> Channel(imagecopy, 1), image |-> img]

(**************************** prepare_image ********************************)
\* np.delete(arr, idx, 1): a new array without column idx; an index out of
\* bounds for the axis raises IndexError
NpDelete(arr, idx) ==
    IF ~PyIndexOk(arr[1], idx)
    THEN [status |-> "IndexError", ret |-> <<>>]
    ELSE LET w == Width(arr)
             pos == IF idx >= 0 THEN idx + 1 ELSE w + idx + 1
         IN [status |-> "ok",
             ret |-> [r \in 1..Len(arr) |->
                        SubSeq(arr[r], 1, pos - 1) \o SubSeq(arr[r], pos + 1, w)]]

\* one pass of the loop body: the first column, then the last
CropOnce(green) ==
    LET first == NpDelete(green, 0)
    IN IF first.status # "ok" THEN first ELSE NpDelete(first.ret, 0 - 1)

\* `for _ in range(n)` over CropOnce
RECURSIVE CropLoop(_, _)
CropLoop(green, n) ==
    IF n = 0 THEN [status |-> "ok", ret |-> green]
    ELSE LET before == CropLoop(green, n - 1)
         IN IF before.status # "ok" THEN before ELSE CropOnce(before.ret)

\* prepare_image(image): the status, (green, red) and the argument as left
prepare_image(img) ==
    LET g == extract_green(img)
        r == extract_red(g.image)
        cropped == CropLoop(g.ret, CropCols)
    IN [status |-> cropped.status, green |-> cropped.ret, red |-> r.ret,
        image |-> r.image]

(****************************** joint_pmf **********************************)
\* The loops over (i, j) compute the same value for any two pairs with the
\* same (x_pmf[i], y_pmf[j]).  They are evaluated here once per distinct
\* pair of values and counted with the number of (i, j) that give the pair:
\* the arithmetic is exact, so sums do not depend on their order.
Values(pmf) == { pmf[k] : k \in 1..Len(pmf) }
Mult(pmf, v) == Cardinality({ k \in 1..Len(pmf) : pmf[k] = v })
ValuePairs(x_pmf, y_pmf) == Values(x_pmf) \X Values(y_pmf)
PairMult(x_pmf, y_pmf, vu) == Mult(x_pmf, vu[1]) * Mult(y_pmf, vu[2])

\* x added up m >= 1 times
FTimes(m, x) == IF x.k = "fin" THEN Fin(m * x.n, x.d) ELSE x

\* the sum of f[e] over the elements e of a finite set S
RECURSIVE FSumOver(_, _)
FSumOver(f, S) ==
    IF S = {} THEN Fin(0, 1)
    ELSE LET e == CHOOSE e \in S : TRUE
         IN FAdd(f[e], FSumOver(f, S \ {e}))

\* hist_result[i, j] = x_pmf[i] + y_pmf[j], for x_pmf[i] = vu[1], y_pmf[j] = vu[2]
RawCell(vu) == FAdd(vu[1], vu[2])

\* np.sum(hist_result)
GridSum(x_pmf, y_pmf) ==
    LET pairs == ValuePairs(x_pmf, y_pmf)
    IN FSumOver([vu \in pairs |-> FTimes(PairMult(x_pmf, y_pmf, vu), RawCell(vu))],
                pairs)

\* joint_pmf(x_pmf, y_pmf): the grid hist_result / np.sum(hist_result), kept
\* as its two marginals and the sum; JointAt gives its cells
joint_pmf(x_pmf, y_pmf) ==
    [x |-> x_pmf, y |-> y_pmf, total |-> GridSum(x_pmf, y_pmf)]

\* pxy[i, j] for x_pmf[i] = vu[1] and y_pmf[j] = vu[2]
JointAt(pxy, vu) == FDiv(RawCell(vu), pxy.total)

(************************** mutual_information *****************************)
\* math.log(x, 2): ValueError at 0, inf at inf, nan at nan, and otherwise
\* the real number log2(x), kept as the symbol [k |-> "log", arg |-> x]
LogRaises(x) == IsZero(x)
Log2(x) == IF x.k = "fin" THEN [k |-> "log", arg |-> x] ELSE [k |-> x.k, arg |-> x]

\* partial = pxy[i, j] * math.log(var2, 2): "nan", "inf", "ninf", or the
\* finite real w * log2(arg) kept as [k |-> "fin", w |-> w, arg |-> arg]
Partial(pxy_ij, var2) ==
    LET l == Log2(var2)
        none == Fin(0, 1)
    IN IF pxy_ij.k = "nan" \/ l.k = "nan" THEN [k |-> "nan", w |-> none, arg |-> none]
       ELSE IF l.k = "inf"
            THEN [k |-> IF IsZero(pxy_ij) THEN "nan" ELSE "inf", w |-> none, arg |-> none]
       ELSE IF pxy_ij.k = "inf"
            THEN [k |-> IF var2.n = var2.d THEN "nan"
                        ELSE IF var2.n > var2.d THEN "inf" ELSE "ninf",
                  w |-> none, arg |-> none]
       ELSE [k |-> "fin", w |-> pxy_ij, arg |-> var2]

\* var1 = px[i] * py[j]; var2 = pxy[i, j] / var1
Var2(pxy, vu) == FDiv(JointAt(pxy, vu), FMul(vu[1], vu[2]))

\* (a variant: a zero var1 is a fatal fault)
DivisionRaises_guarded(var1) == IsZero(var1)

\* pxy[i, j] / var1 on numpy float64 scalars warns and never raises
DivisionRaises(var1) == FALSE

\* mutual_information += partial over all (i, j): nan if any partial is nan
\* or both infinities occur, else the infinity that occurs, else the real
\* number sum of w * log2(arg), kept as the bag of its terms (m: how many
\* (i, j) contribute the term)
SumPartials(parts, pairs, mult) ==
    LET anyOf(kind) == \E vu \in pairs : parts[vu].k = kind
        natSum[S \in SUBSET pairs] ==
            IF S = {} THEN 0
            ELSE LET e == CHOOSE e \in S : TRUE IN mult[e] + natSum[S \ {e}]
    IN IF anyOf("nan") \/ (anyOf("inf") /\ anyOf("ninf"))
       THEN [k |-> "nan", terms |-> {}]
       ELSE IF anyOf("inf") THEN [k |-> "inf", terms |-> {}]
       ELSE IF anyOf("ninf") THEN [k |-> "ninf", terms |-> {}]
       ELSE [k |-> "fin",
             terms |-> { [w |-> t.w, arg |-> t.arg,
                          m |-> natSum[{ vu \in pairs : parts[vu] = t }]] :
                         t \in { parts[vu] : vu \in pairs } }]

NoValue == [k |-> "none", terms |-> {}]

\* mutual_information(image1, image2, id0, bin_size): status and the score
mutual_information(image1, image2, id0, bin_size) ==
    LET mx == marginal_pmf(image1, bin_size, id0)
        my == marginal_pmf(image2, bin_size, id0 + 100)
    IN IF mx.status # "ok" \/ my.status # "ok"
       THEN [status |-> "IndexError", value |-> NoValue]
       ELSE LET px == mx.ret
                py == my.ret
                pxy == joint_pmf(px, py)
                pairs == ValuePairs(px, py)
                mult == [vu \in pairs |-> PairMult(px, py, vu)]
                parts == [vu \in pairs |-> Partial(JointAt(pxy, vu), Var2(pxy, vu))]
            IN IF \E vu \in pairs : DivisionRaises(FMul(vu[1], vu[2]))
               THEN [status |-> "ZeroDivisionError", value |-> NoValue]
               ELSE IF \E vu \in pairs : LogRaises(Var2(pxy, vu))
               THEN [status |-> "ValueError", value |-> NoValue]
               ELSE [status |-> "ok", value |-> SumPartials(parts, pairs, mult)]

(************************** direct calls ***********************************)
\* a synthetic 2-D image: every column of a row has its own intensity
Ramp(h, w, base) ==
    [r \in 1..h |-> [c \in 1..w |-> Scale * ((base + 50 * (r - 1) + (c - 1)) % HistLen)]]

OvRefs == { Ramp(h, w, 200) : h \in 1..MaxH, w \in 0..MaxW }
OvTempWidths == (1..3) \cup ((ShiftBase - 2)..(ShiftBase + MaxW + 1))
OvTemps == { Ramp(h, w, 0) : h \in 1..MaxH, w \in OvTempWidths }
OvShifts == (0 - ShiftSlack)..(ShiftBase + ShiftSlack)

Idle ==
    /\ pc = "idle"
    /\ image = <<>>
    /\ reference = <<>>
    /\ template = <<>>
    /\ i = 0
    /\ overlappingregion = <<>>
    /\ results = <<>>

\* A direct call of a function of the module: Init draws the arguments
\* (phase "called") and the action runs the function (phase "returned").
NoOut == [status |-> "pending"]

InitOverlap ==
    /\ Idle
    /\ \E ref \in OvRefs, temp \in OvTemps, shift \in OvShifts :
          call = [op |-> "overlap", phase |-> "called", ref |-> ref, temp |-> temp,
                  shift |-> shift, out |-> NoOut]

CallOverlap ==
    /\ call.op = "overlap" /\ call.phase = "called"
    /\ LET o == overlap(call.ref, call.temp, call.shift)
       IN call' = [call EXCEPT !.phase = "returned", !.out = o, !.ref = o.ref]
    /\ UNCHANGED <<pc, image, reference, template, i, overlappingregion, results>>

SpecOverlap == InitOverlap /\ [][CallOverlap]_vars

\* direct calls of marginal_pmf: intensities 0.x, 254 and 255.x
PmfVals == { Scale - 1, 254 * Scale, 255 * Scale + (Scale - 1) }
PmfImages ==
    UNION { { <<row>> : row \in [1..w -> PmfVals] } : w \in 1..MaxPix }
    \cup { <<(<<a>>), (<<b>>)>> : a \in PmfVals, b \in PmfVals }
BinSizes == 1..MaxBin

InitPmf ==
    /\ Idle
    /\ \E img \in PmfImages, b \in BinSizes :
          call = [op |-> "marginal_pmf", phase |-> "called", image |-> img,
                  bin_size |-> b, out |-> NoOut]

CallMarginalPmf ==
    /\ call.op = "marginal_pmf" /\ call.phase = "called"
    /\ call' = [call EXCEPT !.phase = "returned",
                            !.out = marginal_pmf(call.image, call.bin_size, 0)]
    /\ UNCHANGED <<pc, image, reference, template, i, overlappingregion, results>>

SpecPmf == InitPmf /\ [][CallMarginalPmf]_vars

(***************************** registration ********************************)
\* synthetic 3-channel images: every column has its own red and its own
\* green intensity, green with a fractional part
Rgb(h, n, a) ==
    [r \in 1..h |->
       [c \in 1..n |->
          << Scale * ((a + 3 * c + 7 * r) % HistLen),
             Scale * ((2 * a + 5 * c + 11 * r) % HistLen) + (Scale - 1),
             Scale * 77 >>]]

\* the number of bins that registration's bin_size gives
FullBins == Len(BinStarts(RegBinSize))

\* A 2-row image whose reference and whose every window fill all bins: row 1
\* runs through the bins with period FullBins, row 2 of the red channel
\* changes from bin 0 to bin 1 at column NumShifts, so that the windows of
\* different shifts have different histograms.
WideImage ==
    [r \in 1..2 |->
       [c \in 1..(FullBins + ShiftBase) |->
          IF r = 1
          THEN << Scale * RegBinSize * ((2 * (c - 1)) % FullBins),
                  Scale * RegBinSize * ((c - 1) % FullBins), 0 >>
          ELSE << IF c - 1 < NumShifts THEN 0 ELSE Scale * RegBinSize,
                  Scale * RegBinSize, 0 >>]]

RegImages ==
    { Rgb(h, n, a) : h \in 1..MaxH, n \in (ShiftBase + 1)..(ShiftBase + MaxExtra),
                     a \in {0, 100} }
    \cup {WideImage}

\* save(image, fname) writes a file from a converted copy of the array; it
\* is an external collaborator and leaves the program's state alone.

\* the shifts of `for i in range(41)`
ShiftRange_short == 0..(NumShifts - 2)

ShiftRange == 0..(NumShifts - 1)

InitRegistration ==
    /\ pc = "start"
    /\ image \in RegImages
    /\ reference = <<>>
    /\ template = <<>>
    /\ i = 0
    /\ overlappingregion = <<>>
    /\ results = <<>>
    /\ call = [op |-> "registration"]

\* reference, template = prepare_image(image); the two saves; results = []
Prepare ==
    /\ pc = "start"
    /\ LET p == prepare_image(image)
       IN /\ image' = p.image
          /\ IF p.status = "ok"
             THEN /\ reference' = p.green
                  /\ template' = p.red
                  /\ pc' = "loop"
             ELSE /\ pc' = "raised"
                  /\ UNCHANGED <<reference, template>>
    /\ UNCHANGED <<i, overlappingregion, results, call>>

\* overlappingregion = overlap(reference, template, i)
Overlap ==
    /\ pc = "loop"
    /\ i \in ShiftRange
    /\ LET o == overlap(reference, template, i)
       IN /\ reference' = o.ref
          /\ IF o.status = "ok"
             THEN overlappingregion' = o.ret /\ pc' = "score"
             ELSE pc' = "raised" /\ UNCHANGED overlappingregion
    /\ UNCHANGED <<image, template, i, results, call>>

\* MI = mutual_information(reference, overlappingregion, i, bin_size=3);
\* results.append(MI); the loop moves on to the next shift
Score ==
    /\ pc = "score"
    /\ LET mi == mutual_information(reference, overlappingregion, i, RegBinSize)
       IN IF mi.status = "ok"
          THEN /\ results' = Append(results, mi.value)
               /\ i' = i + 1
               /\ pc' = "loop"
          ELSE /\ pc' = "raised"
               /\ UNCHANGED <<results, i>>
    /\ UNCHANGED <<image, reference, template, overlappingregion, call>>

\* return results, once the range is exhausted
Return ==
    /\ pc = "loop"
    /\ i \notin ShiftRange
    /\ pc' = "done"
    /\ UNCHANGED <<image, reference, template, i, overlappingregion, results, call>>

\* direct calls of prepare_image, images narrower than 40 columns included
PrepImages ==
    { Rgb(h, n, a) : h \in 1..MaxH, n \in (ShiftBase - 2)..(ShiftBase + MaxExtra),
                     a \in {0, 100, 200} }

InitPrepare ==
    /\ Idle
    /\ \E img \in PrepImages :
          call = [op |-> "prepare_image", phase |-> "called", image |-> img,
                  image0 |-> img, out |-> NoOut]

CallPrepareImage ==
    /\ call.op = "prepare_image" /\ call.phase = "called"
    /\ LET p == prepare_image(call.image)
       IN call' = [call EXCEPT !.phase = "returned", !.out = p, !.image = p.image]
    /\ UNCHANGED <<pc, image, reference, template, i, overlappingregion, results>>

\* direct calls of mutual_information on one-row images
MiVals == { Scale - 1, 255 * Scale + (Scale - 1) }
MiImages == UNION { { <<row>> : row \in [1..w -> MiVals] } : w \in 1..MaxPix }
MiBinSizes == {RegBinSize, 7, 128, 255, 256}

InitMi ==
    /\ Idle
    /\ \E a \in MiImages, b \in MiImages, bs \in MiBinSizes :
          call = [op |-> "mutual_information", phase |-> "called", image1 |-> a,
                  image2 |-> b, bin_size |-> bs, out |-> NoOut]

CallMutualInformation ==
    /\ call.op = "mutual_information" /\ call.phase = "called"
    /\ call' = [call EXCEPT !.phase = "returned",
                  !.out = mutual_information(call.image1, call.image2, 0,
                                             call.bin_size)]
    /\ UNCHANGED <<pc, image, reference, template, i, overlappingregion, results>>

Init == InitRegistration \/ InitPrepare \/ InitMi

Next ==
    \/ Prepare
    \/ Overlap
    \/ Score
    \/ Return
    \/ CallPrepareImage
    \/ CallMutualInformation

Spec == Init /\ [][Next]_vars

(***************************************************************************)
(*                    Properties of overlap (SpecOverlap)                  *)
(***************************************************************************)
OvReturned == call.op = "overlap" /\ call.phase = "returned"

\* C1: for a comparison image at least as tall as ref and at least
\* width(ref)+40 wide and a shift in 0..40, overlap returns an image of ref's
\* dimensions with result[i][j] = temp[i][(40-shift)+j] (0-based), i.e. in
\* 1-based sequences result[r][c] = temp[r][40 - shift + c].
C1_OverlapWindow ==
    ( /\ OvReturned
      /\ Height(call.temp) >= Height(call.ref)
      /\ Width(call.temp) >= Width(call.ref) + 40
      /\ call.shift \in 0..40 )
    => /\ call.out.status = "ok"
       /\ Len(call.out.ret) = Len(call.ref)
       /\ \A r \in 1..Len(call.ref) :
            /\ Len(call.out.ret[r]) = Len(call.ref[r])
            /\ \A c \in 1..Len(call.ref[r]) :
                 call.out.ret[r][c] = call.temp[r][40 - call.shift + c]

\* shift 0 on a 2-column ref: the window is temp's columns 40 and 41
\* (the 41st and 42nd), and it differs from ref
C1_Witness ==
    /\ OvReturned
    /\ call.shift = 0
    /\ Width(call.ref) = 2
    /\ Width(call.temp) >= 42
    /\ call.out.status = "ok"
    /\ call.out.ret[1] = <<call.temp[1][41], call.temp[1][42]>>
    /\ call.out.ret # call.ref

RECURSIVE FSumRange(_, _, _)
FSumRange(s, lo, hi) ==
    IF lo > hi THEN Fin(0, 1)
    ELSE IF lo = hi THEN s[lo]
    ELSE LET mid == (lo + hi) \div 2
         IN FAdd(FSumRange(s, lo, mid), FSumRange(s, mid + 1, hi))
FSum(s) == FSumRange(s, 1, Len(s))

PmfReturned == call.op = "marginal_pmf" /\ call.phase = "returned"
PmfOk == PmfReturned /\ call.out.status = "ok"

\* the number of pixels of the call's image with truncated intensity in S
PixelsIn(S) ==
    Cardinality({ p \in Positions(call.image) : Pix(call.image, p) \in S })
NumPixels == Cardinality(Positions(call.image))

\* C3: whenever marginal_pmf returns, the returned frequencies sum to 1.
C3_SumsToOne == PmfOk => FSum(call.out.ret) = Fin(1, 1)

\* C4: the returned sequence has ceil(256 / bin_size) entries and entry k
\* (0-based) is the share of pixels with truncated intensity in
\* [k*bin_size, (k+1)*bin_size).
C4_LengthAndEntries ==
    PmfOk =>
      /\ Len(call.out.ret) = (256 + call.bin_size - 1) \div call.bin_size
      /\ \A k \in 1..Len(call.out.ret) :
           call.out.ret[k] =
             Fin(PixelsIn(((k - 1) * call.bin_size)..(k * call.bin_size - 1)),
                 NumPixels)

\* C7: with bin_size 255 and 256 marginal_pmf returns without IndexError,
\* and no histogram index above 255 is read.
C7_NoIndexError ==
    (PmfReturned /\ call.bin_size \in {255, 256})
    => /\ call.out.status = "ok"
       /\ \A x \in BinReads(call.bin_size) : x <= 255

C7_Witness ==
    /\ PmfOk
    /\ call.bin_size = 255
    /\ Len(call.out.ret) = 1
    /\ PixelsIn({255}) > 0

Divides(b, n) == n % b = 0

\* C10 as stated: the call returns iff bin_size divides 255 or 256; the bins
\* cover 0..255 when bin_size divides 256 and only 0..254 when it divides 255.
C10_Original ==
    PmfReturned =>
      /\ call.out.status = "ok"
           <=> (Divides(call.bin_size, 255) \/ Divides(call.bin_size, 256))
      /\ Divides(call.bin_size, 256) => BinReads(call.bin_size) = 0..255
      /\ Divides(call.bin_size, 255) => BinReads(call.bin_size) = 0..254

\* C10 amended: the call returns iff bin_size divides 255 or 256; the bins
\* cover 0..255 when bin_size divides 256 and is not 1, and only 0..254 when
\* bin_size divides 255 (bin_size 1 included), so that the frequencies then
\* sum to the share of pixels whose intensity is not 255.
C10_BinCoverage ==
    PmfReturned =>
      /\ call.out.status = "ok"
           <=> (Divides(call.bin_size, 255) \/ Divides(call.bin_size, 256))
      /\ (Divides(call.bin_size, 256) /\ call.bin_size # 1)
           => /\ BinReads(call.bin_size) = 0..255
              /\ FSum(call.out.ret) = Fin(1, 1)
      /\ Divides(call.bin_size, 255)
           => /\ BinReads(call.bin_size) = 0..254
              /\ FSum(call.out.ret) = Fin(PixelsIn(0..254), NumPixels)

\* bin_size 1 divides 256, yet a pixel of intensity 255 is in no bin
C10_Witness ==
    /\ PmfOk
    /\ call.bin_size = 1
    /\ Len(call.out.ret) = 255
    /\ PixelsIn({255}) = 1
    /\ NumPixels = 2
    /\ FSum(call.out.ret) = Fin(1, 2)

(***************************************************************************)
(*            Properties of prepare_image and registration (Spec)          *)
(***************************************************************************)
PrepReturned == call.op = "prepare_image" /\ call.phase = "returned"

\* C5: for an image of width N >= 40 prepare_image returns the full-width
\* red channel, comparison[i][j] = image[i][j][0], and the green channel
\* without its 20 leftmost and 20 rightmost columns,
\* reference[i][j] = image[i][j+20][1], of width N-40, and leaves the image
\* as it was.
C5_PrepareImage ==
    (PrepReturned /\ Len(call.image0[1]) >= 40)
    => LET img == call.image0
           n == Len(img[1])
       IN /\ call.out.status = "ok"
          /\ Len(call.out.red) = Len(img)
          /\ Len(call.out.green) = Len(img)
          /\ \A r \in 1..Len(img) :
               /\ Len(call.out.red[r]) = n
               /\ Len(call.out.green[r]) = n - 40
               /\ \A c \in 1..n : call.out.red[r][c] = img[r][c][1]
               /\ \A c \in 1..(n - 40) : call.out.green[r][c] = img[r][c + 20][2]
          /\ call.image = img

C5_Witness ==
    /\ PrepReturned
    /\ Len(call.image0[1]) = 41
    /\ call.out.status = "ok"
    /\ call.out.green[1] = << call.image0[1][21][2] >>
    /\ call.out.red[1][41] = call.image0[1][41][1]
    /\ call.image0[1][21][1] # 0 /\ call.image0[1][21][3] # 0

Registering == call.op = "registration"

\* the window of the comparison image for shift k, by the column formula
Window(k) ==
    [r \in 1..Len(reference) |->
       [c \in 1..Len(reference[r]) |-> template[r][40 - k + c]]]

\* the score of the window for shift k
ScoreOfShift(k) == mutual_information(reference, Window(k), k, 3).value

ZeroBin(img, bin_size) ==
    LET m == marginal_pmf(img, bin_size, 0)
    IN \E k \in 1..Len(m.ret) : IsZero(m.ret[k])

MiReturned == call.op = "mutual_information" /\ call.phase = "returned"
MarginalsReturn ==
    /\ marginal_pmf(call.image1, call.bin_size, 0).status = "ok"
    /\ marginal_pmf(call.image2, call.bin_size, 0).status = "ok"
CallHasZeroBin ==
    ZeroBin(call.image1, call.bin_size) \/ ZeroBin(call.image2, call.bin_size)
ShiftHasZeroBin(k) == ZeroBin(reference, 3) \/ ZeroBin(Window(k), 3)
NonFinite(v) == v.k \in {"inf", "nan"}

\* C8 as stated: mutual_information raises whenever a marginal bin of either
\* image has zero mass, so it returns no score for such inputs and no result
\* series of registration holds a score of such a shift.
C8_Original ==
    /\ (MiReturned /\ MarginalsReturn /\ CallHasZeroBin) => call.out.status # "ok"
    /\ Registering => \A k \in 1..Len(results) : ~ShiftHasZeroBin(k - 1)

\* C8 amended: mutual_information does not raise on a zero-mass bin: the
\* float64 division by zero gives inf (nan for 0/0) and the logarithm passes
\* it on, so whenever a marginal bin of either image has zero mass the call
\* returns a score that is inf or nan, and registration appends that score
\* and runs on to return all 41 entries.
C8_NonFiniteScore ==
    /\ (MiReturned /\ MarginalsReturn) =>
         /\ call.out.status = "ok"
         /\ CallHasZeroBin => NonFinite(call.out.value)
    /\ Registering =>
         /\ pc # "raised"
         /\ (pc = "loop" /\ i > 0 /\ ShiftHasZeroBin(i - 1)) => NonFinite(results[i])
         /\ pc = "done" =>
              /\ Len(results) = 41
              /\ \A k \in 1..41 : ShiftHasZeroBin(k - 1) => NonFinite(results[k])

\* a returned series of 41 scores, all of them inf or nan
C8_Witness ==
    /\ Registering
    /\ pc = "done"
    /\ Len(results) = 41
    /\ ShiftHasZeroBin(0)
    /\ \A k \in 1..41 : NonFinite(results[k])

\* the reference and the comparison image as prepare_image derives them
\* from the input image
GreenCropped ==
    [r \in 1..Len(image) |->
       [c \in 1..(Len(image[r]) - 40) |-> image[r][c + 20][2]]]
RedChannel ==
    [r \in 1..Len(image) |-> [c \in 1..Len(image[r]) |-> image[r][c][1]]]
WindowOf(temp, ref, k) ==
    [r \in 1..Len(ref) |-> [c \in 1..Len(ref[r]) |-> temp[r][40 - k + c]]]

====
